---- MODULE Spec2Model ----
(***************************************************************************)
(* A model of the useFiles hook (src/web/src/hooks/use-files.ts): the      *)
(* filter set, the cursor-based page fetches, the live status overlay fed  *)
(* by file-status messages, and the merged, linked view built from both.   *)
(*                                                                         *)
(* JavaScript values.  A value that may be null or undefined is an option: *)
(* None is null/undefined and Some(v) is the value v, so that `a ?? b` is  *)
(* Coalesce(a, b).  An object is a record whose DOMAIN is its set of own   *)
(* keys (a key may be present with the value None).  An array that is      *)
(* compared with === carries a reference, [ref, items]: two arrays with    *)
(* equal items and different refs are different objects.  A text that is   *)
(* percent-encoded is a sequence of one-character strings.                 *)
(***************************************************************************)
EXTENDS Integers, Sequences, FiniteSets, TLC

VARIABLES
  filters,            \* useLocalStorage value: the current FileFilter
  latestFilesStatus,  \* useState: uniqueId -> overlay entry
  lastJsonMessage,    \* useWebsocket: the single latest-message slot
  effectPending,      \* the FILE_STATUS effect has not yet run for the slot
  pages,              \* useSWRInfinite data: None or Some(<<page, ...>>)
  size,               \* useSWRInfinite size: the requested page count
  isLoading,          \* useSWRInfinite isLoading
  isValidating,       \* useSWRInfinite isValidating
  error,              \* useSWRInfinite error: None or Some("error")
  request,            \* the last getKey call: [page, prev, key]
  storedSize,         \* useSWRInfinite: first-page key -> the size it was left with
  files,              \* useMemo: the merged, linked view
  lastOp,             \* history: the operation that ran last, [op, arg]
  log,                \* history: the file-status events applied so far
  outstanding,        \* the page requests sent and not yet answered, oldest first
  captured            \* the values the handlers of the last render closed over

vars == <<filters, latestFilesStatus, lastJsonMessage, effectPending, pages,
          size, isLoading, isValidating, error, request, storedSize, files, lastOp, log,
          outstanding, captured>>

----------------------------------------------------------------------------
(* Bounds of the model *)

MaxPages == 2     \* loadMore is explored while size < MaxPages
MaxLog == 3       \* events recorded by the overlay specification
MaxOutstanding == 2  \* a request is sent while fewer than this are outstanding
MaxKeyPage == 2   \* page indices 0..MaxKeyPage given to getKey

----------------------------------------------------------------------------
(* JavaScript values *)

None == <<>>
Some(v) == <<v>>
Coalesce(a, b) == IF a # None THEN a ELSE b

\* obj[key], undefined when the object has no such key
Get(obj, key) == IF key \in DOMAIN obj THEN obj[key] ELSE None

\* {...obj, [key]: value}
With(obj, key, value) ==
  [k \in DOMAIN obj \cup {key} |-> IF k = key THEN value ELSE obj[k]]

\* truthiness of an optional string, text (character sequence), boolean, array
TruthyString(v) == v # None /\ v[1] # ""
TruthyText(v) == v # None /\ v[1] # <<>>
TruthyBool(v) == v = Some(TRUE)
TruthyObject(v) == v # None

\* the value of an option the code has found truthy
Str(v) == IF v = None THEN "" ELSE v[1]
Chars(v) == IF v = None THEN <<>> ELSE v[1]
Items(v) == IF v = None THEN <<>> ELSE v[1].items

RECURSIVE Join(_, _)
\* Array.prototype.join on an array of strings
Join(items, sep) ==
  IF items = <<>> THEN ""
  ELSE IF Len(items) = 1 THEN items[1]
  ELSE items[1] \o sep \o Join(Tail(items), sep)

\* window.encodeURIComponent on the characters the model uses
EncodeChar(c) ==
  CASE c = " " -> "%20"
    [] c = "&" -> "%26"
    [] c = "%" -> "%25"
    [] OTHER -> c

RECURSIVE encodeURIComponent(_)
encodeURIComponent(text) ==
  IF text = <<>> THEN ""
  ELSE EncodeChar(Head(text)) \o encodeURIComponent(Tail(text))

----------------------------------------------------------------------------
(* Fetched records, pages and the server's answers *)

File(id, uniqueId, fileSize, date, status, path, completion, downloaded, transfer) ==
  [id |-> Some(id), uniqueId |-> uniqueId, size |-> fileSize, date |-> date,
   downloadStatus |-> Some(status), localPath |-> path,
   completionDate |-> Some(completion), downloadedSize |-> Some(downloaded),
   transferStatus |-> Some(transfer)]

f1 == File(1, "u1", 100, 11, "downloading", Some("/d/a"), 0, 10, "idle")
f2 == File(2, "u2", 200, 12, "completed", Some("/d/b"), 21, 200, "completed")
f3 == File(3, "u3", 300, 13, "idle", None, 0, 0, "idle")
f4 == File(4, "u1", 400, 14, "idle", None, 0, 0, "idle")
f5 == File(5, "u5", 500, 15, "completed", Some("/d/e"), 25, 500, "idle")

FileResponse(fs, count, next) ==
  [files |-> fs, count |-> count, nextFromMessageId |-> next]

\* what the server may answer to a page fetch
Responses ==
  { FileResponse(<<f1, f2>>, 5, 42),
    FileResponse(<<f3, f4, f5>>, 5, 0),
    FileResponse(<<>>, 0, 0),
    FileResponse(<<f3>>, 5, 0),
    FileResponse(<<f1, f2>>, 2, 42) }

----------------------------------------------------------------------------
(* The filter set *)

DEFAULT_FILTERS ==
  [search |-> Some(<<>>), type |-> Some("media"), downloadStatus |-> None,
   transferStatus |-> None, offline |-> Some(FALSE)]

\* array objects: the ref is the object's identity, the items are the
\* elements in the string form join gives them
DateRangeA == [ref |-> 1, items |-> <<"2024-01-01", "2024-02-01">>]
DateRangeB == [ref |-> 2, items |-> <<"2024-01-01", "2024-02-01">>]
DateRangeEmpty == [ref |-> 3, items |-> <<>>]
SizeRangeA == [ref |-> 4, items |-> <<"1", "5">>]

Offline(f) == With(f, "offline", Some(TRUE))
Sorted(f, key) == With(f, "sort", Some(key))

FSortSize == Sorted(DEFAULT_FILTERS, "size")
FOffSize == Sorted(Offline(DEFAULT_FILTERS), "size")
FOffCompletion == Sorted(Offline(DEFAULT_FILTERS), "completion_date")
FOffDateA == With(Sorted(Offline(DEFAULT_FILTERS), "date"), "dateRange", Some(DateRangeA))
FOffDateB == With(Sorted(Offline(DEFAULT_FILTERS), "date"), "dateRange", Some(DateRangeB))
FOffNoSort == With(Offline(DEFAULT_FILTERS), "dateRange", Some(DateRangeEmpty))
FSearch ==
  [search |-> Some(<<"a", " ", "b">>), type |-> Some("document"),
   downloadStatus |-> Some("completed"), transferStatus |-> Some("idle"),
   offline |-> Some(FALSE), dateType |-> Some("sent"),
   sizeRange |-> Some(SizeRangeA), sizeUnit |-> Some("MB"),
   sort |-> Some("name"), order |-> Some("desc")]
\* an object with fewer own keys than the default
FPartial == [search |-> Some(<<>>), type |-> Some("media"), offline |-> Some(FALSE)]

\* the filter sets getKey is called with
FilterValues ==
  { DEFAULT_FILTERS, FSortSize, FOffSize, FOffCompletion, FOffDateA, FOffDateB,
    FOffNoSort, FSearch, FPartial }

\* the filter sets the caller passes to handleFilterChange
HookFilters == {DEFAULT_FILTERS, FSortSize, FOffDateA, FOffDateB, FPartial}

----------------------------------------------------------------------------
(* getKey: the fetch key of a page *)

\* ...(cond && { name: value }) inside the URLSearchParams initialiser
Param(cond, name, value) == IF cond THEN << <<name, value>> >> ELSE <<>>

FilterParams(f) ==
     Param(TruthyText(Get(f, "search")), "search", encodeURIComponent(Chars(Get(f, "search"))))
  \o Param(TruthyString(Get(f, "type")), "type", Str(Get(f, "type")))
  \o Param(TruthyString(Get(f, "downloadStatus")), "downloadStatus", Str(Get(f, "downloadStatus")))
  \o Param(TruthyString(Get(f, "transferStatus")), "transferStatus", Str(Get(f, "transferStatus")))
  \o Param(TruthyBool(Get(f, "offline")), "offline", "true")
  \o Param(TruthyString(Get(f, "dateType")), "dateType", Str(Get(f, "dateType")))
  \o Param(TruthyObject(Get(f, "dateRange")), "dateRange", Join(Items(Get(f, "dateRange")), ","))
  \o Param(TruthyObject(Get(f, "sizeRange")), "sizeRange", Join(Items(Get(f, "sizeRange")), ","))
  \o Param(TruthyString(Get(f, "sizeUnit")), "sizeUnit", Str(Get(f, "sizeUnit")))
  \o Param(TruthyString(Get(f, "sort")), "sort", Str(Get(f, "sort")))
  \o Param(TruthyString(Get(f, "order")), "order", Str(Get(f, "order")))

HasParam(params, name) == \E i \in 1..Len(params) : params[i][1] = name

\* URLSearchParams.set: sets the first parameter of that name and deletes the
\* others of that name, or appends the parameter when there is none
ParamSet(params, name, value) ==
  IF HasParam(params, name)
  THEN LET first == CHOOSE i \in 1..Len(params) :
                      /\ params[i][1] = name
                      /\ \A j \in 1..(i - 1) : params[j][1] # name
       IN  SubSeq(params, 1, first - 1) \o << <<name, value>> >>
           \o SelectSeq(SubSeq(params, first + 1, Len(params)), LAMBDA p : p[1] # name)
  ELSE Append(params, <<name, value>>)

FilesUrl(params) == [path |-> "/telegram/acc/chat/chat/files", params |-> params]

SortFieldParam(f, lastFile, params) ==
  IF Get(f, "sort") = Some("size")
  THEN ParamSet(params, "fromSortField", ToString(lastFile.size))
  ELSE IF Get(f, "sort") = Some("completion_date")
  THEN ParamSet(params, "fromSortField", ToString(lastFile.completionDate[1]))
  ELSE IF Get(f, "sort") = Some("date")
  THEN ParamSet(params, "fromSortField", ToString(lastFile.date))
  ELSE params

\* a variant of getKey without the test for an absent previous page
getKeyNoNullCheck(f, page, previousPageData) ==
  LET params == FilterParams(f) IN
  IF page = 0 \/ previousPageData = None THEN Some(FilesUrl(params))
  ELSE LET prev == previousPageData[1]
           withCursor == ParamSet(params, "fromMessageId", ToString(prev.nextFromMessageId))
       IN  IF TruthyBool(Get(f, "offline")) /\ Len(prev.files) > 0
           THEN Some(FilesUrl(SortFieldParam(f, prev.files[Len(prev.files)], withCursor)))
           ELSE Some(FilesUrl(withCursor))

\* a variant of getKey that sends the previous page's count as the cursor
getKeyCountCursor(f, page, previousPageData) ==
  LET params == FilterParams(f) IN
  IF page = 0 THEN Some(FilesUrl(params))
  ELSE IF previousPageData = None THEN None
  ELSE LET prev == previousPageData[1]
           withCursor == ParamSet(params, "fromMessageId", ToString(prev.count))
       IN  IF TruthyBool(Get(f, "offline")) /\ Len(prev.files) > 0
           THEN Some(FilesUrl(SortFieldParam(f, prev.files[Len(prev.files)], withCursor)))
           ELSE Some(FilesUrl(withCursor))

\* a variant of getKey that takes the sort field from the first record
getKeyFirstRecord(f, page, previousPageData) ==
  LET params == FilterParams(f) IN
  IF page = 0 THEN Some(FilesUrl(params))
  ELSE IF previousPageData = None THEN None
  ELSE LET prev == previousPageData[1]
           withCursor == ParamSet(params, "fromMessageId", ToString(prev.nextFromMessageId))
       IN  IF TruthyBool(Get(f, "offline")) /\ Len(prev.files) > 0
           THEN Some(FilesUrl(SortFieldParam(f, prev.files[1], withCursor)))
           ELSE Some(FilesUrl(withCursor))

getKey(f, page, previousPageData) ==
  LET params == FilterParams(f) IN
  IF page = 0 THEN Some(FilesUrl(params))
  ELSE IF previousPageData = None THEN None
  ELSE LET prev == previousPageData[1]
           withCursor == ParamSet(params, "fromMessageId", ToString(prev.nextFromMessageId))
       IN  IF TruthyBool(Get(f, "offline")) /\ Len(prev.files) > 0
           THEN Some(FilesUrl(SortFieldParam(f, prev.files[Len(prev.files)], withCursor)))
           ELSE Some(FilesUrl(withCursor))

----------------------------------------------------------------------------
(* The live status overlay *)

FILE_STATUS == "file-status"

\* the payload of a file-status message
StatusData(fileId, uniqueId, status, path, completion, downloaded, transfer, removed) ==
  [fileId |-> fileId, uniqueId |-> uniqueId, downloadStatus |-> status,
   localPath |-> path, completionDate |-> completion,
   downloadedSize |-> downloaded, transferStatus |-> transfer, removed |-> removed]

Message(type, data) == [type |-> type, data |-> data]

EvStatus(u) ==
  Message(FILE_STATUS, StatusData(Some(7), u, Some("completed"), None, None, Some(1024), None, None))
EvFull(u) ==
  Message(FILE_STATUS, StatusData(Some(8), u, Some("downloading"), Some("/d/x"), Some(5), Some(0),
                                  Some("transferring"), Some(FALSE)))
EvRemoved(u) ==
  Message(FILE_STATUS, StatusData(Some(7), u, None, None, None, None, None, Some(TRUE)))
EvRemovedFull(u) ==
  Message(FILE_STATUS, StatusData(Some(9), u, Some("completed"), Some("/d/x"), Some(5), Some(77),
                                  Some("completed"), Some(TRUE)))
EvNoId(u) ==
  Message(FILE_STATUS, StatusData(None, u, None, Some("/d/y"), None, None, None, None))
EvOther == Message("file-update", StatusData(Some(7), "u1", Some("completed"), None, None, None, None, None))

EventIds == {"u1", "u2"}

\* the messages of the overlay specification and of the hook specification
OverlayMessages ==
  {EvStatus(u) : u \in EventIds} \cup {EvFull(u) : u \in EventIds}
    \cup {EvRemoved(u) : u \in EventIds} \cup {EvRemovedFull(u) : u \in EventIds}
    \cup {EvNoId(u) : u \in EventIds} \cup {EvOther}
HookMessages == {EvStatus("u1"), EvRemoved("u1"), EvNoId("u1"), EvOther}

\* prev[uniqueId]?.field
PrevField(prev, uniqueId, field) ==
  IF uniqueId \in DOMAIN prev THEN prev[uniqueId][field] ELSE None

\* the entry a removed event writes
ResetEntry(data) ==
  [fileId |-> data.fileId, downloadStatus |-> Some("idle"), localPath |-> None,
   completionDate |-> None, downloadedSize |-> Some(0), transferStatus |-> Some("idle")]

\* a variant of MergeEntry that lets an absent field erase the stored value
MergeEntryOverwrite(prev, data) ==
  [fileId |-> data.fileId, downloadStatus |-> data.downloadStatus,
   localPath |-> data.localPath, completionDate |-> data.completionDate,
   downloadedSize |-> data.downloadedSize, transferStatus |-> data.transferStatus]

\* the entry any other event writes
MergeEntry(prev, data) ==
  [fileId |-> data.fileId,
   downloadStatus |-> Coalesce(data.downloadStatus, PrevField(prev, data.uniqueId, "downloadStatus")),
   localPath |-> Coalesce(data.localPath, PrevField(prev, data.uniqueId, "localPath")),
   completionDate |-> Coalesce(data.completionDate, PrevField(prev, data.uniqueId, "completionDate")),
   downloadedSize |-> Coalesce(data.downloadedSize, PrevField(prev, data.uniqueId, "downloadedSize")),
   transferStatus |-> Coalesce(data.transferStatus, PrevField(prev, data.uniqueId, "transferStatus"))]

\* a variant of ApplyFileStatus in which a removed event deletes the entry
ApplyFileStatusDelete(prev, data) ==
  IF TruthyBool(data.removed)
  THEN [u \in DOMAIN prev \ {data.uniqueId} |-> prev[u]]
  ELSE With(prev, data.uniqueId, MergeEntry(prev, data))

\* the updater given to setLatestFileStatus
ApplyFileStatus(prev, data) ==
  IF TruthyBool(data.removed)
  THEN With(prev, data.uniqueId, ResetEntry(data))
  ELSE With(prev, data.uniqueId, MergeEntry(prev, data))

----------------------------------------------------------------------------
(* The merged view and hasMore *)

\* a variant of Overlaid in which the fetched value takes precedence
OverlaidFetchedFirst(overlay, file, field, fetched) ==
  Coalesce(fetched, PrevField(overlay, file.uniqueId, field))

\* latestFilesStatus[file.uniqueId]?.field ?? fetched
Overlaid(overlay, file, field, fetched) ==
  Coalesce(PrevField(overlay, file.uniqueId, field), fetched)

MergeFile(file, overlay) ==
  [file EXCEPT
     !.id = Overlaid(overlay, file, "fileId", file.id),
     !.downloadStatus = Overlaid(overlay, file, "downloadStatus", file.downloadStatus),
     !.localPath = Overlaid(overlay, file, "localPath", file.localPath),
     !.completionDate = Overlaid(overlay, file, "completionDate", file.completionDate),
     !.downloadedSize = Overlaid(overlay, file, "downloadedSize", file.downloadedSize),
     !.transferStatus = Overlaid(overlay, file, "transferStatus", file.transferStatus)]

MergePage(page, overlay) ==
  [i \in 1..Len(page.files) |-> MergeFile(page.files[i], overlay)]

RECURSIVE MergePages(_, _)
\* pages.forEach(page => page.files.forEach(file => files.push(...)))
MergePages(pageList, overlay) ==
  IF pageList = <<>> THEN <<>>
  ELSE MergePage(Head(pageList), overlay) \o MergePages(Tail(pageList), overlay)

\* files[index]: a reference to the entry at that position of the array being
\* built, or undefined outside it
EntryAt(merged, index) ==
  IF index \in 1..Len(merged) THEN Some([at |-> index, entry |-> merged[index]]) ELSE None

\* a variant of LinkFile that links next to the entry before
LinkFilePrevTwice(merged, index) ==
  merged[index] @@ [prev |-> EntryAt(merged, index - 1), next |-> EntryAt(merged, index - 1)]

LinkFile(merged, index) ==
  merged[index] @@ [prev |-> EntryAt(merged, index - 1), next |-> EntryAt(merged, index + 1)]

LinkFiles(merged) == [index \in 1..Len(merged) |-> LinkFile(merged, index)]

\* the files memo
Project(pageData, overlay) ==
  IF pageData = None THEN <<>> ELSE LinkFiles(MergePages(pageData[1], overlay))

RECURSIVE FetchedCount(_)
\* pages.reduce((acc, d) => acc + d.files.length, 0)
FetchedCount(pageList) ==
  IF pageList = <<>> THEN 0 ELSE Len(Head(pageList).files) + FetchedCount(Tail(pageList))

\* a variant of HasMore that ignores the cursor
HasMoreCountOnly(pageData) ==
  IF pageData = None \/ Len(pageData[1]) = 0 THEN TRUE
  ELSE pageData[1][Len(pageData[1])].count > FetchedCount(pageData[1])

\* the hasMore memo
HasMore(pageData) ==
  IF pageData = None \/ Len(pageData[1]) = 0 THEN TRUE
  ELSE LET lastPage == pageData[1][Len(pageData[1])]
       IN  lastPage.count > FetchedCount(pageData[1]) /\ lastPage.nextFromMessageId # 0

hasMore == HasMore(pages)

----------------------------------------------------------------------------
(* The paging cache (useSWRInfinite) as the hook uses it: one fetch at a     *)
(* time, page after page; revalidateFirstPage is false, so a cached page is  *)
(* not fetched again; keepPreviousData is true, so data keeps the pages of   *)
(* the previous key until the new key's first page has arrived; persistSize  *)
(* is unset, so the size belongs to the first-page key: a key seen for the   *)
(* first time starts at one page, a key seen before at the size it was left  *)
(* with.                                                                     *)

swrVars == <<pages, size, isLoading, isValidating, error, request, storedSize>>

\* written only where the handlers run against a captured render
raceVars == <<outstanding, captured>>

PageList == IF pages = None THEN <<>> ELSE pages[1]

Op(name, arg) == [op |-> name, arg |-> arg]

\* the cache asks getKey for the key of a page and fetches it unless it is null
Fetch(f, page, prev) ==
  /\ request' = [page |-> page, prev |-> prev, key |-> getKey(f, page, prev)]
  /\ isValidating' = (getKey(f, page, prev) # None)

FirstKey(f) == getKey(f, 0, None)

\* the size the cache holds for the first-page key of f
SizeOf(f) == IF FirstKey(f) \in DOMAIN storedSize THEN storedSize[FirstKey(f)] ELSE 1

\* the sizes of the keys other than that of f, the key left with leftSize
Leave(f, leftSize) ==
  LET others == DOMAIN storedSize \ {FirstKey(f)}
      kept == [k \in others |-> storedSize[k]]
  IN  IF leftSize > 1 /\ FirstKey(filters) # FirstKey(f)
      THEN With(kept, FirstKey(filters), leftSize)
      ELSE kept

\* the first page's key becomes that of f, the key before is left with
\* leftSize: the previous data stays until page 0 arrives
NewGeneration(f, leftSize) ==
  /\ size' = SizeOf(f)
  /\ storedSize' = Leave(f, leftSize)
  /\ Fetch(f, 0, None)
  /\ isLoading' = TRUE
  /\ error' = None
  /\ UNCHANGED pages

\* setSize(n) under an unchanged key
setSize(n) ==
  /\ size' = n
  /\ IF Len(PageList) < n
     THEN /\ Fetch(filters, Len(PageList),
                   IF Len(PageList) = 0 THEN None ELSE Some(PageList[Len(PageList)]))
          /\ UNCHANGED <<pages, isLoading, error, storedSize>>
     ELSE /\ pages' = Some(SubSeq(PageList, 1, n))
          /\ UNCHANGED <<isLoading, isValidating, error, request, storedSize>>

----------------------------------------------------------------------------
(* The operations of the hook *)

\* the event source puts a message into the latest-message slot
WsMessage(m) ==
  /\ lastJsonMessage' = Some(m)
  /\ effectPending' = TRUE
  /\ lastOp' = Op("message", None)
  /\ UNCHANGED <<filters, latestFilesStatus, swrVars, files, log, raceVars>>

\* a variant of IsFileStatus without the test of the message type
IsFileStatusAnyType == lastJsonMessage # None

IsFileStatus == lastJsonMessage # None /\ lastJsonMessage[1].type = FILE_STATUS

\* the effect on [lastJsonMessage], and the files memo after it
Effect ==
  /\ effectPending
  /\ effectPending' = FALSE
  /\ lastOp' = Op("effect", None)
  /\ IF IsFileStatus
     THEN /\ latestFilesStatus' = ApplyFileStatus(latestFilesStatus, lastJsonMessage[1].data)
          /\ files' = Project(pages, latestFilesStatus')
     ELSE UNCHANGED <<latestFilesStatus, files>>
  /\ UNCHANGED <<filters, lastJsonMessage, swrVars, raceVars>>

FileStatusEffect == Effect /\ UNCHANGED log

\* the same effect, with the applied event recorded
FileStatusEffectLogged ==
  /\ Len(log) < MaxLog
  /\ Effect
  /\ log' = IF IsFileStatus THEN Append(log, lastJsonMessage[1].data) ELSE log

\* a variant of the guard that ignores the error state
LoadMoreBlockedNoError == isLoading \/ isValidating \/ ~hasMore

\* the guard of handleLoadMore
LoadMoreBlocked == isLoading \/ isValidating \/ ~hasMore \/ error # None

\* handleLoadMore, run against the current isLoading, isValidating, hasMore,
\* error and size
handleLoadMore ==
  /\ LoadMoreBlocked \/ size < MaxPages
  /\ lastOp' = Op("loadMore", None)
  /\ IF LoadMoreBlocked
     THEN UNCHANGED swrVars
     ELSE setSize(size + 1)
  /\ files' = Project(pages', latestFilesStatus)
  /\ UNCHANGED <<filters, latestFilesStatus, lastJsonMessage, effectPending, log, raceVars>>

\* the equality test of handleFilterChange
SameFilters(newFilters) ==
  \A key \in DOMAIN newFilters : newFilters[key] = Get(filters, key)

handleFilterChange(newFilters) ==
  /\ lastOp' = Op("filterChange", Some(newFilters))
  /\ IF SameFilters(newFilters)
     THEN UNCHANGED <<filters, swrVars>>
     ELSE /\ filters' = newFilters
          /\ IF FirstKey(newFilters) = FirstKey(filters) /\ ~isValidating /\ error = None
             THEN setSize(1)
             ELSE NewGeneration(newFilters, 1)
  /\ files' = Project(pages', latestFilesStatus)
  /\ UNCHANGED <<latestFilesStatus, lastJsonMessage, effectPending, log, raceVars>>

\* the clear operation of the preference store, handed out as it is
clearFilters ==
  /\ lastOp' = Op("clearFilters", None)
  /\ filters' = DEFAULT_FILTERS
  /\ IF FirstKey(DEFAULT_FILTERS) # FirstKey(filters)
     THEN NewGeneration(DEFAULT_FILTERS, size)
     ELSE UNCHANGED swrVars
  /\ UNCHANGED <<latestFilesStatus, lastJsonMessage, effectPending, files, log, raceVars>>

\* the page being fetched arrives; when size asks for more pages than there
\* are, the cache goes on to the next page
FetchSuccess(response) ==
  /\ isValidating
  /\ lastOp' = Op("fetchSuccess", None)
  /\ pages' = IF request.page = 0 THEN Some(<<response>>)
              ELSE Some(Append(SubSeq(PageList, 1, request.page), response))
  /\ IF request.page + 1 < size
     THEN Fetch(filters, request.page + 1, Some(response))
     ELSE isValidating' = FALSE /\ UNCHANGED request
  /\ isLoading' = FALSE
  /\ error' = None
  /\ files' = Project(pages', latestFilesStatus)
  /\ UNCHANGED <<filters, latestFilesStatus, lastJsonMessage, effectPending, size, storedSize,
                 log, raceVars>>

\* the fetch of the page fails
FetchError ==
  /\ isValidating
  /\ lastOp' = Op("fetchError", None)
  /\ error' = Some("error")
  /\ isValidating' = FALSE
  /\ isLoading' = FALSE
  /\ UNCHANGED <<filters, latestFilesStatus, lastJsonMessage, effectPending, pages, size,
                 request, storedSize, files, log, raceVars>>

\* a page request as it is sent
Sent(r) == [page |-> r.page, key |-> r.key]

\* the values a render hands to the handlers it creates
Rendered ==
  [isLoading |-> isLoading, isValidating |-> isValidating, hasMore |-> hasMore,
   error |-> error, size |-> size]

----------------------------------------------------------------------------
(* The hook: mounted with a filter set, it fetches page 0 *)

Mounted(f) ==
  /\ filters = f
  /\ latestFilesStatus = <<>>
  /\ lastJsonMessage = None
  /\ effectPending = FALSE
  /\ pages = None
  /\ size = 1
  /\ isLoading = TRUE
  /\ isValidating = TRUE
  /\ error = None
  /\ request = [page |-> 0, prev |-> None, key |-> getKey(f, 0, None)]
  /\ files = <<>>
  /\ lastOp = Op("mount", None)
  /\ log = <<>>
  /\ storedSize = <<>>
  /\ outstanding = <<Sent(request)>>
  /\ captured = Rendered

Init == Mounted(DEFAULT_FILTERS)

Next ==
  \/ \E m \in HookMessages : WsMessage(m)
  \/ FileStatusEffect
  \/ handleLoadMore
  \/ \E newFilters \in HookFilters : handleFilterChange(newFilters)
  \/ \E response \in Responses : FetchSuccess(response)
  \/ FetchError

Spec == Init /\ [][Next]_vars

----------------------------------------------------------------------------
(* The hook with the clear operation of the preference store, which the     *)
(* hook hands out beside its own handlers                                    *)

ClearMessages == {EvStatus("u1"), EvRemoved("u1"), EvStatus("u2"), EvOther}
ClearFilterValues == {DEFAULT_FILTERS, FSortSize}
ClearResponses ==
  { FileResponse(<<f1, f2>>, 5, 42), FileResponse(<<f3, f4, f5>>, 5, 0) }

NextClear ==
  \/ \E m \in ClearMessages : WsMessage(m)
  \/ FileStatusEffect
  \/ handleLoadMore
  \/ \E newFilters \in ClearFilterValues : handleFilterChange(newFilters)
  \/ clearFilters
  \/ \E response \in ClearResponses : FetchSuccess(response)
  \/ FetchError

SpecClear == Init /\ [][NextClear]_vars

----------------------------------------------------------------------------
(* The overlay alone: every file-status event, each applied event recorded *)

NextOverlay ==
  \/ \E m \in OverlayMessages : WsMessage(m)
  \/ FileStatusEffectLogged

SpecOverlay == Init /\ [][NextOverlay]_vars

----------------------------------------------------------------------------
(* getKey alone: called with every filter set, page index and previous page *)

PreviousPages == {None} \cup {Some(response) : response \in Responses}

CallGetKey(page, previousPageData) ==
  /\ request' = [page |-> page, prev |-> previousPageData,
                 key |-> getKey(filters, page, previousPageData)]
  /\ lastOp' = Op("getKey", None)
  /\ UNCHANGED <<filters, latestFilesStatus, lastJsonMessage, effectPending, pages, size,
                 isLoading, isValidating, error, storedSize, files, log, raceVars>>

InitKey == \E f \in FilterValues : Mounted(f)

NextKey == \E page \in 0..MaxKeyPage, prev \in PreviousPages : CallGetKey(page, prev)

SpecKey == InitKey /\ [][NextKey]_vars

----------------------------------------------------------------------------
(* The handlers as closures: a handler reads the isLoading, isValidating,    *)
(* hasMore, error and size of the render that created it, and several calls  *)
(* can be made before the next render.  Every request the cache sends is     *)
(* kept in outstanding until it is answered; the cache takes the answer of   *)
(* the request it sent last and drops the answer of any other.               *)

\* the filter sets and the answers of this specification
RaceFilters == {DEFAULT_FILTERS, FSortSize}
RaceResponses ==
  { FileResponse(<<f1, f2>>, 5, 42), FileResponse(<<f3, f4, f5>>, 5, 0) }

\* data still holds the pages of an earlier key, or nothing: page 0 of the
\* current key has not arrived
StalePages == request.page = 0 /\ (isValidating \/ error # None)

\* setSize(n) called at any moment: the cache fetches the first page it lacks
RaceSetSize(n) ==
  /\ IF StalePages
     THEN /\ size' = n
          /\ Fetch(filters, 0, None)
          /\ UNCHANGED <<pages, isLoading, error, storedSize>>
     ELSE setSize(n)
  /\ outstanding' = IF StalePages \/ Len(PageList) < n
                    THEN Append(outstanding, Sent(request'))
                    ELSE outstanding

Answered(i) == SubSeq(outstanding, 1, i - 1) \o SubSeq(outstanding, i + 1, Len(outstanding))

\* a render: the handlers are created over the current values
Render ==
  /\ captured' = Rendered
  /\ lastOp' = Op("render", None)
  /\ UNCHANGED <<filters, latestFilesStatus, lastJsonMessage, effectPending, swrVars, files,
                 log, outstanding>>

\* the guard of handleLoadMore as the closure evaluates it
CapturedBlocked ==
  captured.isLoading \/ captured.isValidating \/ ~captured.hasMore \/ captured.error # None

\* handleLoadMore of the last render
RaceLoadMore ==
  /\ lastOp' = Op("loadMore", None)
  /\ IF CapturedBlocked
     THEN UNCHANGED <<swrVars, outstanding>>
     ELSE /\ captured.size < MaxPages
          /\ Len(outstanding) < MaxOutstanding
          /\ RaceSetSize(captured.size + 1)
  /\ files' = Project(pages', latestFilesStatus)
  /\ UNCHANGED <<filters, latestFilesStatus, lastJsonMessage, effectPending, log, captured>>

\* handleFilterChange: it has no guard on a fetch in flight
RaceFilterChange(newFilters) ==
  /\ lastOp' = Op("filterChange", Some(newFilters))
  /\ IF SameFilters(newFilters)
     THEN UNCHANGED <<filters, swrVars, outstanding>>
     ELSE /\ Len(outstanding) < MaxOutstanding
          /\ filters' = newFilters
          /\ IF FirstKey(newFilters) = FirstKey(filters) /\ ~isValidating /\ error = None
             THEN setSize(1) /\ UNCHANGED outstanding
             ELSE /\ NewGeneration(newFilters, 1)
                  /\ outstanding' = Append(outstanding, Sent(request'))
  /\ files' = Project(pages', latestFilesStatus)
  /\ UNCHANGED <<latestFilesStatus, lastJsonMessage, effectPending, log, captured>>

RaceClearFilters ==
  /\ lastOp' = Op("clearFilters", None)
  /\ filters' = DEFAULT_FILTERS
  /\ IF FirstKey(DEFAULT_FILTERS) # FirstKey(filters)
     THEN /\ Len(outstanding) < MaxOutstanding
          /\ NewGeneration(DEFAULT_FILTERS, size)
          /\ outstanding' = Append(outstanding, Sent(request'))
     ELSE UNCHANGED <<swrVars, outstanding>>
  /\ UNCHANGED <<latestFilesStatus, lastJsonMessage, effectPending, files, log, captured>>

\* the request sent last is the one whose answer the cache takes
Latest(i) == isValidating /\ i = Len(outstanding)

\* request i is answered with a page; when the answer is taken and size asks
\* for more pages than there are, the cache goes on to the next page
RaceFetchSuccess(i, response) ==
  /\ i \in 1..Len(outstanding)
  /\ lastOp' = Op("fetchSuccess", None)
  /\ IF Latest(i)
     THEN /\ pages' = IF request.page = 0 THEN Some(<<response>>)
                      ELSE Some(Append(SubSeq(PageList, 1, request.page), response))
          /\ isLoading' = FALSE
          /\ error' = None
          /\ UNCHANGED <<size, storedSize>>
          /\ IF request.page + 1 < size
             THEN /\ Fetch(filters, request.page + 1, Some(response))
                  /\ outstanding' = Append(Answered(i), Sent(request'))
             ELSE /\ isValidating' = FALSE
                  /\ outstanding' = Answered(i)
                  /\ UNCHANGED request
     ELSE /\ outstanding' = Answered(i)
          /\ UNCHANGED swrVars
  /\ files' = Project(pages', latestFilesStatus)
  /\ UNCHANGED <<filters, latestFilesStatus, lastJsonMessage, effectPending, log, captured>>

\* request i fails
RaceFetchError(i) ==
  /\ i \in 1..Len(outstanding)
  /\ lastOp' = Op("fetchError", None)
  /\ outstanding' = Answered(i)
  /\ IF Latest(i)
     THEN /\ error' = Some("error")
          /\ isValidating' = FALSE
          /\ isLoading' = FALSE
          /\ UNCHANGED <<pages, size, request, storedSize>>
     ELSE UNCHANGED swrVars
  /\ UNCHANGED <<filters, latestFilesStatus, lastJsonMessage, effectPending, files, log,
                 captured>>

NextRace ==
  \/ Render
  \/ RaceLoadMore
  \/ \E newFilters \in RaceFilters : RaceFilterChange(newFilters)
  \/ RaceClearFilters
  \/ \E i \in 1..MaxOutstanding, response \in RaceResponses : RaceFetchSuccess(i, response)
  \/ \E i \in 1..MaxOutstanding : RaceFetchError(i)

SpecRace == Init /\ [][NextRace]_vars

----------------------------------------------------------------------------
(* Properties of the overlay *)

MutableFields ==
  {"downloadStatus", "localPath", "completionDate", "downloadedSize", "transferStatus"}

ResetValue(field) ==
  CASE field = "downloadStatus" -> Some("idle")
    [] field = "transferStatus" -> Some("idle")
    [] field = "downloadedSize" -> Some(0)
    [] OTHER -> None

Highest(S) == CHOOSE x \in S : \A y \in S : y <= x

\* the positions in the log of the events for a uniqueId
EventsFor(u) == {i \in 1..Len(log) : log[i].uniqueId = u}

\* the position of the most recent removed event for a uniqueId, 0 if none
LastRemoved(u) ==
  LET removals == {i \in EventsFor(u) : log[i].removed = Some(TRUE)}
  IN  IF removals = {} THEN 0 ELSE Highest(removals)

\* the later events for a uniqueId that carry a field
Carriers(u, field) ==
  {i \in EventsFor(u) : i > LastRemoved(u) /\ log[i][field] # None}

ExpectedField(u, field) ==
  IF Carriers(u, field) # {} THEN log[Highest(Carriers(u, field))][field]
  ELSE IF LastRemoved(u) > 0 THEN ResetValue(field)
  ELSE None

(* C1: after any sequence of applied file-status events, a uniqueId without  *)
(* an event has no overlay entry; otherwise each mutable field of its entry  *)
(* is the last non-null value of that field among the events for it after   *)
(* its most recent removed event, and without such an event the reset value  *)
(* if a removed event occurred and undefined if none did.                    *)
C1_OverlayIsFold ==
  \A u \in EventIds \cup {"u3"} :
    IF EventsFor(u) = {}
    THEN u \notin DOMAIN latestFilesStatus
    ELSE /\ u \in DOMAIN latestFilesStatus
         /\ \A field \in MutableFields :
              latestFilesStatus[u][field] = ExpectedField(u, field)

\* a full event, then a removal, then a partial event, all for one uniqueId
C1_Witness ==
  /\ Len(log) = 3
  /\ log[1].uniqueId = "u1" /\ log[2].uniqueId = "u1" /\ log[3].uniqueId = "u1"
  /\ log[1].localPath # None /\ log[1].removed # Some(TRUE)
  /\ log[2].removed = Some(TRUE)
  /\ log[3].removed # Some(TRUE) /\ log[3].downloadedSize = Some(1024) /\ log[3].localPath = None
  /\ latestFilesStatus["u1"].localPath = None
  /\ latestFilesStatus["u1"].transferStatus = Some("idle")
  /\ latestFilesStatus["u1"].downloadedSize = Some(1024)

----------------------------------------------------------------------------
(* Properties of the merged view *)

\* the file-status event the effect applied last
LastApplied == IF ~effectPending /\ IsFileStatus THEN Some(lastJsonMessage[1].data) ELSE None

(* C2: when the last event applied for a uniqueId is a removed event, every  *)
(* merged entry with that uniqueId shows downloadStatus idle, transferStatus *)
(* idle, localPath undefined and downloadedSize 0, whatever was fetched.     *)
C2_RemovedShowsReset ==
  \A i \in 1..Len(files) :
    (LastApplied # None /\ LastApplied[1].removed = Some(TRUE)
       /\ files[i].uniqueId = LastApplied[1].uniqueId)
    => /\ files[i].downloadStatus = Some("idle")
       /\ files[i].transferStatus = Some("idle")
       /\ files[i].localPath = None
       /\ files[i].downloadedSize = Some(0)

RECURSIVE RecordsBefore(_)
\* the number of records in the fetched pages before page p
RecordsBefore(p) ==
  IF p <= 1 THEN 0 ELSE RecordsBefore(p - 1) + Len(PageList[p - 1].files)

TotalRecords == RecordsBefore(Len(PageList) + 1)

OverlayValue(u, field) ==
  IF u \in DOMAIN latestFilesStatus THEN latestFilesStatus[u][field] ELSE None

(* C3: the merged view is the fetched pages concatenated in fetch order      *)
(* (empty when no page is fetched); id, downloadStatus, localPath,           *)
(* completionDate, downloadedSize and transferStatus of an entry are the     *)
(* overlay's value for the record's uniqueId when that is non-null and the   *)
(* fetched value otherwise; every other field is the fetched value; a record *)
(* without an overlay entry passes through unchanged.                        *)
C3_MergedView ==
  /\ Len(files) = TotalRecords
  /\ (pages = None => files = <<>>)
  /\ \A p \in 1..Len(PageList) : \A j \in 1..Len(PageList[p].files) :
       LET fetched == PageList[p].files[j]
           merged == files[RecordsBefore(p) + j]
           u == fetched.uniqueId
       IN  /\ \A field \in MutableFields :
                merged[field] = IF OverlayValue(u, field) # None
                                THEN OverlayValue(u, field) ELSE fetched[field]
           /\ merged.id = IF OverlayValue(u, "fileId") # None
                          THEN OverlayValue(u, "fileId") ELSE fetched.id
           /\ \A field \in {"uniqueId", "size", "date"} : merged[field] = fetched[field]
           /\ u \notin DOMAIN latestFilesStatus
                => \A field \in DOMAIN fetched : merged[field] = fetched[field]

\* two pages fetched, and an overlay entry that has some fields and lacks others
C3_Witness ==
  /\ Len(PageList) = 2
  /\ Len(files) = 5
  /\ "u1" \in DOMAIN latestFilesStatus
  /\ latestFilesStatus["u1"].downloadedSize = Some(1024)
  /\ latestFilesStatus["u1"].localPath = None
  /\ files[1].uniqueId = "u1" /\ files[1].downloadedSize = Some(1024)
  /\ files[1].localPath = Some("/d/a")
  /\ files[2].uniqueId = "u2"

\* an entry without its links
Unlinked(entry) == [field \in DOMAIN entry \ {"prev", "next"} |-> entry[field]]

(* C4: in every state each entry's prev link is the entry before it in the   *)
(* current merged view and its next link the entry after it; the first       *)
(* entry's prev and the last entry's next are undefined; no link refers to   *)
(* an entry of an earlier merged view.                                       *)
C4_Links ==
  \A i \in 1..Len(files) :
    /\ files[i].prev = IF i = 1 THEN None
                       ELSE Some([at |-> i - 1, entry |-> Unlinked(files[i - 1])])
    /\ files[i].next = IF i = Len(files) THEN None
                       ELSE Some([at |-> i + 1, entry |-> Unlinked(files[i + 1])])

\* the view was rebuilt after an overlay change, over several entries
C4_Witness ==
  /\ lastOp.op = "effect"
  /\ Len(files) = 5
  /\ "u1" \in DOMAIN latestFilesStatus
  /\ files[1].downloadStatus = Some("idle")
  /\ files[2].prev # None /\ files[2].prev[1].entry.downloadStatus = Some("idle")
  /\ files[1].prev = None /\ files[5].next = None

(* C5: hasMore is true when no page has been fetched; otherwise it is true   *)
(* exactly when the last page's count exceeds the number of records fetched  *)
(* over all pages and the last page's nextFromMessageId is not 0.            *)
C5_HasMore ==
  hasMore = IF pages = None THEN TRUE
            ELSE /\ PageList[Len(PageList)].count > TotalRecords
                 /\ PageList[Len(PageList)].nextFromMessageId # 0

\* the count is not reached and the cursor is 0
C5_Witness ==
  /\ pages # None
  /\ PageList[Len(PageList)].count > TotalRecords
  /\ PageList[Len(PageList)].nextFromMessageId = 0
  /\ ~hasMore

----------------------------------------------------------------------------
(* Properties of loadMore and changeFilters *)

(* C6: loadMore leaves the requested page count, the filters and the fetched *)
(* pages unchanged when a fetch is loading or validating, or hasMore is      *)
(* false, or the error state is set; in every other state it raises the      *)
(* requested page count by exactly one.                                      *)
C6_LoadMore ==
  [][lastOp'.op = "loadMore"
       => IF isLoading \/ isValidating \/ ~hasMore \/ error # None
          THEN UNCHANGED <<size, filters, pages>>
          ELSE size' = size + 1 /\ UNCHANGED <<filters, pages>>]_vars

\* a second page was requested and failed, and loadMore was called again
C6_Witness ==
  /\ lastOp.op = "loadMore"
  /\ error # None
  /\ size = 2
  /\ Len(PageList) = 1

FilterFields ==
  {"search", "type", "downloadStatus", "transferStatus", "offline", "dateType",
   "dateRange", "sizeRange", "sizeUnit", "sort", "order"}

\* the value of a filter field, an array by its contents
FieldContent(f, field) ==
  IF field \in {"dateRange", "sizeRange"} /\ Get(f, field) # None
  THEN Some(Get(f, field)[1].items)
  ELSE Get(f, field)

StructurallyEqual(a, b) ==
  \A field \in FilterFields : FieldContent(a, field) = FieldContent(b, field)

(* C7: changeFilters called with a filter set equal to the current one on    *)
(* every field, the arrays dateRange and sizeRange compared by their         *)
(* contents, is a no-op: the filter set is not written, the requested page   *)
(* count is not reset and no fetch is started.                               *)
C7_EqualIsNoop ==
  [][(lastOp'.op = "filterChange" /\ StructurallyEqual(lastOp'.arg[1], filters))
       => UNCHANGED <<filters, swrVars>>]_vars

(* C8: changeFilters called with a filter set that differs from the current  *)
(* one on at least one recognized field, also when the new set leaves unset  *)
(* a field the current set has set, replaces the filter set by the new one   *)
(* and sets the requested page count to 1.                                   *)
C8_DifferentReplaces ==
  [][(lastOp'.op = "filterChange" /\ ~StructurallyEqual(lastOp'.arg[1], filters))
       => filters' = lastOp'.arg[1] /\ size' = 1]_vars

----------------------------------------------------------------------------
(* Properties of getKey *)

ParamValue(params, name) ==
  params[CHOOSE i \in 1..Len(params) : params[i][1] = name][2]

WithoutParam(params, name) == SelectSeq(params, LAMBDA p : p[1] # name)

(* C9: the key of page 0 is never null and is built from the current filters *)
(* without a fromMessageId parameter; the key of a later page is null when   *)
(* the previous page is absent, and otherwise is the page-0 key plus a       *)
(* fromMessageId parameter that is the previous page's nextFromMessageId.    *)
C9_KeyShape ==
  LET first == getKey(filters, 0, None) IN
  IF request.page = 0
  THEN /\ request.key # None
       /\ request.key = getKey(filters, 0, request.prev)
       /\ ~HasParam(request.key[1].params, "fromMessageId")
       /\ ~HasParam(request.key[1].params, "fromSortField")
  ELSE IF request.prev = None
  THEN request.key = None
  ELSE /\ request.key # None
       /\ request.key[1].path = first[1].path
       /\ WithoutParam(request.key[1].params, "fromSortField")
            = Append(first[1].params,
                     <<"fromMessageId", ToString(request.prev[1].nextFromMessageId)>>)

\* getKey was called for a later page with a previous page whose cursor is 42
C9_Witness ==
  /\ lastOp.op = "getKey"
  /\ request.page = 2
  /\ request.prev # None
  /\ request.key # None
  /\ ParamValue(request.key[1].params, "fromMessageId") = "42"
  /\ HasParam(request.key[1].params, "search")

SortKeys == {Some("size"), Some("completion_date"), Some("date")}

LastRecord(page) == page.files[Len(page.files)]

(* C10: a key carries a fromSortField parameter exactly when the page index  *)
(* is above 0, the previous page is present and has a record, offline is set *)
(* and sort is size, completion_date or date; its value is then the size,    *)
(* completionDate or date of the last record of the previous page.           *)
C10_SortField ==
  LET carries == request.key # None /\ HasParam(request.key[1].params, "fromSortField")
      due == /\ request.page > 0
             /\ request.prev # None
             /\ Len(request.prev[1].files) > 0
             /\ Get(filters, "offline") = Some(TRUE)
             /\ Get(filters, "sort") \in SortKeys
  IN  /\ carries <=> due
      /\ due => ParamValue(request.key[1].params, "fromSortField") =
                  CASE Get(filters, "sort") = Some("size") ->
                         ToString(LastRecord(request.prev[1]).size)
                    [] Get(filters, "sort") = Some("completion_date") ->
                         ToString(LastRecord(request.prev[1]).completionDate[1])
                    [] Get(filters, "sort") = Some("date") ->
                         ToString(LastRecord(request.prev[1]).date)

\* sorted by completion date offline, after a page of three records
C10_Witness ==
  /\ lastOp.op = "getKey"
  /\ Get(filters, "sort") = Some("completion_date")
  /\ request.page = 1
  /\ request.prev # None
  /\ Len(request.prev[1].files) = 3
  /\ request.key # None
  /\ ParamValue(request.key[1].params, "fromSortField") = "25"

----------------------------------------------------------------------------
(* Properties of the query parameters *)

FieldIsSet(f, field) ==
  CASE field = "search"  -> Get(f, "search") \notin {None, Some(<<>>)}
    [] field = "offline" -> Get(f, "offline") = Some(TRUE)
    [] OTHER             -> Get(f, field) # None

(* C11: the query of a key has a parameter for a filter field exactly when   *)
(* the field is set, and no parameter has the empty string as its value,     *)
(* an empty dateRange or sizeRange included.                                 *)
C11_NoEmptyParam ==
  request.key # None =>
    /\ \A field \in FilterFields :
         HasParam(request.key[1].params, field) <=> FieldIsSet(filters, field)
    /\ \A i \in 1..Len(request.key[1].params) : request.key[1].params[i][2] # ""

----------------------------------------------------------------------------
(* Properties of paging *)

LastPage == PageList[Len(PageList)]

\* the last fetched page has cursor 0, or the records fetched reach its count
Exhausted ==
  /\ pages # None
  /\ \/ LastPage.nextFromMessageId = 0
     \/ TotalRecords >= LastPage.count

(* C12: while the filter set is unchanged, a fetch started by loadMore is    *)
(* for the page after the last fetched one and carries that page's           *)
(* nextFromMessageId as fromMessageId; and once the last fetched page has    *)
(* cursor 0 or the records fetched reach the count, hasMore stays false and  *)
(* no step starts a fetch.                                                   *)
C12_CursorChain ==
  [][ /\ (lastOp'.op = "loadMore" /\ request' # request) =>
           /\ pages # None
           /\ request'.page = Len(PageList)
           /\ request'.prev = Some(LastPage)
           /\ request'.key # None
           /\ ParamValue(request'.key[1].params, "fromMessageId")
                = ToString(LastPage.nextFromMessageId)
           /\ isValidating'
      /\ (Exhausted /\ ~isValidating /\ filters' = filters) =>
           /\ ~hasMore
           /\ pages' = pages
           /\ request' = request
           /\ ~isValidating'
           /\ size' = size ]_vars

\* 2 records of 5 with cursor 42, then 3 records with cursor 0 fetched from
\* cursor 42: 5 entries, hasMore false, and a further loadMore has been called
C12_Witness ==
  /\ lastOp.op = "loadMore"
  /\ Len(PageList) = 2
  /\ PageList[1] = FileResponse(<<f1, f2>>, 5, 42)
  /\ PageList[2] = FileResponse(<<f3, f4, f5>>, 5, 0)
  /\ request.page = 1
  /\ ParamValue(request.key[1].params, "fromMessageId") = "42"
  /\ Len(files) = 5
  /\ ~hasMore
  /\ ~isValidating

\* newFilters differs from the current filters in the content of a field it has
DiffersInContent(newFilters) ==
  \E key \in DOMAIN newFilters : FieldContent(newFilters, key) # FieldContent(filters, key)

(* C13: a failed fetch sets the error and leaves the pages and the merged    *)
(* view as they were; while the error is set a loadMore changes nothing of   *)
(* the paging state, and the error and the pages stay as long as the filter  *)
(* set stays; a filter change to different filters is carried out with the   *)
(* error set: the filters are replaced and page 0 is fetched again, the      *)
(* error cleared.                                                            *)
C13_ErrorBlocks ==
  [][ /\ lastOp'.op = "fetchError" =>
           error' # None /\ pages' = pages /\ files' = files /\ size' = size
      /\ (error # None /\ lastOp'.op = "loadMore") =>
           UNCHANGED <<pages, size, isLoading, isValidating, error, request, files>>
      /\ (error # None /\ filters' = filters) =>
           error' # None /\ pages' = pages /\ ~isValidating'
      /\ (error # None /\ lastOp'.op = "filterChange" /\ DiffersInContent(lastOp'.arg[1])) =>
           /\ filters' = lastOp'.arg[1]
           /\ error' = None
           /\ isValidating'
           /\ request'.page = 0 ]_vars

\* the fetch of the second page has failed and loadMore has been called since
C13_Witness ==
  /\ lastOp.op = "loadMore"
  /\ error # None
  /\ Len(PageList) = 1
  /\ size = 2
  /\ Len(files) = 2
  /\ hasMore

----------------------------------------------------------------------------
(* Properties of the requests in flight *)

(* C14: at most one page request is outstanding at any time, and a page      *)
(* after the first is requested only from the fetched page before it.        *)
C14_OneOutstanding ==
  /\ Len(outstanding) <= 1
  /\ (isValidating /\ request.page > 0) =>
       /\ Len(PageList) >= request.page
       /\ request.prev = Some(PageList[request.page])

(* C15: once the filter set has changed to one with another query, the       *)
(* merged view holds no record fetched under the earlier filter set: a step  *)
(* that changes the first-page key leaves the merged view empty.             *)
C15_NoSupersededRecords ==
  [][ getKey(filters', 0, None) # getKey(filters, 0, None) => files' = <<>> ]_vars

----------------------------------------------------------------------------
(* Properties of the event consumer *)

(* C16: every delivered file-status message is applied once and in arrival   *)
(* order: a file-status message waiting in the latest-message slot is not    *)
(* replaced before the effect has run for it.                                *)
C16_NoEventSkipped ==
  [][ (effectPending /\ IsFileStatus) => lastJsonMessage' = lastJsonMessage ]_vars

----------------------------------------------------------------------------
(* Properties of the overlay under all operations of the hook *)

\* the state a removed event leaves in an entry
IsReset(entry) ==
  /\ entry.downloadStatus = Some("idle")
  /\ entry.transferStatus = Some("idle")
  /\ entry.downloadedSize = Some(0)
  /\ entry.localPath = None
  /\ entry.completionDate = None

(* C17: the set of uniqueIds with an overlay entry never shrinks, whatever   *)
(* the step; the effect run for a removed event leaves an entry for the      *)
(* event's uniqueId, in the reset state.                                     *)
C17_OverlayNeverShrinks ==
  [][ /\ DOMAIN latestFilesStatus \subseteq DOMAIN latestFilesStatus'
      /\ (lastOp'.op = "effect" /\ IsFileStatus
            /\ lastJsonMessage[1].data.removed = Some(TRUE)) =>
           /\ lastJsonMessage[1].data.uniqueId \in DOMAIN latestFilesStatus'
           /\ IsReset(latestFilesStatus'[lastJsonMessage[1].data.uniqueId]) ]_vars

\* a removed event for u1 has been applied after two pages were fetched
C17_Witness ==
  /\ lastOp.op = "effect"
  /\ lastJsonMessage = Some(EvRemoved("u1"))
  /\ "u1" \in DOMAIN latestFilesStatus
  /\ IsReset(latestFilesStatus["u1"])
  /\ Len(PageList) = 2

(* C18: the entry of a uniqueId holds the fileId of the most recent event    *)
(* that carried one: the effect run for an event leaves in the entry the     *)
(* event's fileId, or the fileId stored before when the event carries none,  *)
(* and every merged entry with that uniqueId has this identifier as id.      *)
C18_LatestFileId ==
  [][ (/\ lastOp'.op = "effect"
       /\ IsFileStatus
       /\ lastJsonMessage[1].data.uniqueId \in DOMAIN latestFilesStatus
       /\ latestFilesStatus[lastJsonMessage[1].data.uniqueId].fileId # None) =>
        LET u == lastJsonMessage[1].data.uniqueId
            known == Coalesce(lastJsonMessage[1].data.fileId, latestFilesStatus[u].fileId)
        IN  /\ latestFilesStatus'[u].fileId = known
            /\ \A i \in 1..Len(files') : files'[i].uniqueId = u => files'[i].id = known ]_vars

----------------------------------------------------------------------------
(* Properties of the requested page count *)

(* C19: whenever the filter set changes to one with another query, by        *)
(* handleFilterChange or by clearFilters, the requested page count is one    *)
(* after the step.                                                           *)
C19_FilterChangeResetsSize ==
  [][ FirstKey(filters') # FirstKey(filters) => size' = 1 ]_vars

----------------------------------------------------------------------------
(* The frame of the event consumer *)

\* the message in the slot is tagged as a file-status update
Tagged == lastJsonMessage # None /\ lastJsonMessage[1].type = "file-status"

(* C20: the delivery of a message and the effect run for it leave the        *)
(* filters, the fetched pages, the requested page count, hasMore and the     *)
(* length and order of the merged view as they were; the effect changes at   *)
(* most the overlay entry of the message's uniqueId, and for a message not   *)
(* tagged as a file-status update it changes neither the overlay nor the     *)
(* merged view.                                                              *)
C20_MessageFrame ==
  [][ lastOp'.op \in {"message", "effect"} =>
        /\ UNCHANGED <<filters, pages, size, isLoading, isValidating, error, request>>
        /\ hasMore' = hasMore
        /\ Len(files') = Len(files)
        /\ \A i \in 1..Len(files) : files'[i].uniqueId = files[i].uniqueId
        /\ lastOp'.op = "message" => UNCHANGED <<latestFilesStatus, files>>
        /\ (lastOp'.op = "effect" /\ ~Tagged) => UNCHANGED <<latestFilesStatus, files>>
        /\ (lastOp'.op = "effect" /\ Tagged) =>
             /\ DOMAIN latestFilesStatus' =
                  DOMAIN latestFilesStatus \cup {lastJsonMessage[1].data.uniqueId}
             /\ \A u \in DOMAIN latestFilesStatus \ {lastJsonMessage[1].data.uniqueId} :
                  latestFilesStatus'[u] = latestFilesStatus[u] ]_vars

\* an event for u2 has been applied with an entry for u1 in the overlay and
\* two pages in the merged view
C20_Witness ==
  /\ lastOp.op = "effect"
  /\ lastJsonMessage = Some(EvStatus("u2"))
  /\ DOMAIN latestFilesStatus = {"u1", "u2"}
  /\ latestFilesStatus["u1"].downloadStatus = Some("idle")
  /\ Len(files) = 5
  /\ files[2].downloadStatus = Some("completed")

====
